---- MODULE Spec2Model ----
(***************************************************************************)
(* Model of the collection-and-dispatch pipeline of vsphere-graphite:      *)
(* Service.Manage (src/vsphere-graphite.go) from the end of configuration  *)
(* decoding to its return, together with the goroutines it starts, the     *)
(* channels it creates and the backend calls it makes.                     *)
(*                                                                         *)
(* Go slices are 0-based; the model's sequences are 1-based, so slot i of  *)
(* pointbuffer in the code is pointbuffer[i + 1] here, while bufferindex   *)
(* keeps the code's value (the number of slots in use).                    *)
(***************************************************************************)
EXTENDS Integers, Sequences, FiniteSets, TLC

\* ---- bounds of the model ------------------------------------------------
MaxFlushSize == 3      \* largest config.FlushSize of a run
NumVCenters == 2       \* len(config.VCenters)
MaxTasks == 4          \* query goroutines started in a run
MaxTotalPoints == 3    \* Points all query tasks together try to emit in a run

VCenters == 1 .. NumVCenters

\* signal.Notify(interrupt, os.Interrupt, os.Kill, syscall.SIGTERM): SIGKILL
\* cannot be caught, so two kinds of signal reach the channel.
Signals == {"interrupt", "terminated"}

\* backend.Point{}: the zero-value Point.  A real Point is <<task, k>>: the
\* k-th Point emitted by query task number task.
EmptyPoint == <<0, 0>>

VARIABLES
    pc,           \* position of Manage: "init", "running", "done", "failed"
    FlushSize,    \* config.FlushSize once a configured 0 is replaced by 1000
    metrics,      \* chan backend.Point: the Points queued in the channel
    interrupt,    \* chan os.Signal of capacity 1
    tickerC,      \* ticker.C holds a tick
    memtimerC,    \* memtimer.C holds a tick
    tasks,        \* the query goroutines started so far, in start order
    pointbuffer,  \* []backend.Point of length FlushSize
    bufferindex,  \* next free slot
    status, err,  \* the (string, error) Manage returns
    killSignal,   \* the signal received from interrupt ("none" before)
    dispatched,   \* history: the calls of config.Backend.SendMetrics
    received,     \* history: the Points received from metrics, in order
    accepted,     \* history: the Points sent into metrics, in order
    ticks,        \* history: the poll ticks the loop has handled
    earlier       \* history: the Points at the head of metrics that were
                  \* sent into it before the signal held by interrupt

vars == <<pc, FlushSize, metrics, interrupt, tickerC, memtimerC, tasks,
          pointbuffer, bufferindex, status, err, killSignal, dispatched,
          received, accepted, ticks, earlier>>

\* ---- helpers ------------------------------------------------------------

\* a bug: the channel is made one slot larger than the buffer
MetricsCap_PlusOne == FlushSize + 1

\* cap(metrics): make(chan backend.Point, config.FlushSize)
MetricsCap == FlushSize

\* cap(interrupt): make(chan os.Signal, 1)
InterruptCap == 1

\* make([]backend.Point, config.FlushSize): every slot is the zero value
NewPointBuffer == [i \in 1 .. FlushSize |-> EmptyPoint]

\* a bug: a vcenter whose earlier query has not returned is skipped
StartRound_SkipBusy(ts) ==
    ts \o SelectSeq([v \in VCenters |-> [vcenter |-> v, state |-> "query", emitted |-> 0]],
                    LAMBDA n : \A t \in DOMAIN ts :
                                  ts[t].vcenter = n.vcenter => ts[t].state = "done")

\* for _, vcenter := range config.VCenters { go queryVCenter(...) }
StartRound(ts) ==
    ts \o [v \in VCenters |-> [vcenter |-> v, state |-> "query", emitted |-> 0]]

\* the Point a task is about to emit
NextPoint(t) == <<t, tasks[t].emitted + 1>>

\* Points the tasks have emitted or are blocked trying to emit
Attempted ==
    Len(accepted) + Cardinality({t \in DOMAIN tasks : tasks[t].state = "blocked"})

\* a bug: the queries are called without go, so the loop waits for them
Running_Synchronous ==
    pc = "running" /\ \A t \in DOMAIN tasks : tasks[t].state = "done"

\* a bug: the signal case leaves the select but not the loop
Running_AfterReturn == pc \in {"running", "done"}

\* the for { select { ... } } loop is waiting for its next event: it is
\* entered after the startup and left by the return of the signal case
Running == pc = "running"

\* a bug: the queue hands out the newest value first
ChanSend_Front(ch, p) == <<p>> \o ch

\* a send on a channel: the value joins the queue at its tail
ChanSend(ch, p) == Append(ch, p)

\* ---- startup ------------------------------------------------------------

Init ==
    /\ pc = "init"
    /\ FlushSize \in 1 .. MaxFlushSize
    /\ metrics = <<>>
    /\ interrupt = <<>>
    /\ tickerC = FALSE
    /\ memtimerC = FALSE
    /\ tasks = <<>>
    /\ pointbuffer = <<>>
    /\ bufferindex = 0
    /\ status = ""
    /\ err = "nil"
    /\ killSignal = "none"
    /\ dispatched = <<>>
    /\ received = <<>>
    /\ accepted = <<>>
    /\ ticks = 0
    /\ earlier = 0

\* a bug: the first round of queries is started before the backend is
\* initialised
BackendInitFails_AfterRound ==
    /\ pc = "init"
    /\ pc' = "failed"
    /\ status' = "Could not initialize backend"
    /\ err' = "error"
    /\ tasks' = StartRound(tasks)
    /\ UNCHANGED <<FlushSize, metrics, interrupt, tickerC, memtimerC,
                   pointbuffer, bufferindex, killSignal, dispatched,
                   received, accepted, ticks,
                   earlier>>

\* config.Backend.Init returns an error: Manage returns at once
BackendInitFails ==
    /\ pc = "init"
    /\ pc' = "failed"
    /\ status' = "Could not initialize backend"
    /\ err' = "error"
    /\ UNCHANGED <<FlushSize, metrics, interrupt, tickerC, memtimerC, tasks,
                   pointbuffer, bufferindex, killSignal, dispatched,
                   received, accepted, ticks,
                   earlier>>

\* a bug: no round of queries is started before the loop, the first round
\* waits for the first tick
Startup_NoRound ==
    /\ pc = "init"
    /\ pc' = "running"
    /\ interrupt' = <<>>
    /\ metrics' = <<>>
    /\ tickerC' = FALSE
    /\ memtimerC' = FALSE
    /\ pointbuffer' = NewPointBuffer
    /\ bufferindex' = 0
    /\ UNCHANGED <<FlushSize, tasks, status, err, killSignal, dispatched,
                   received, accepted, ticks, earlier>>

\* config.Backend.Init succeeds: channels, tickers, the first round of query
\* goroutines and the buffer are set up and the loop is entered
Startup ==
    /\ pc = "init"
    /\ pc' = "running"
    /\ interrupt' = <<>>
    /\ metrics' = <<>>
    /\ tickerC' = FALSE
    /\ memtimerC' = FALSE
    /\ tasks' = StartRound(tasks)
    /\ pointbuffer' = NewPointBuffer
    /\ bufferindex' = 0
    /\ UNCHANGED <<FlushSize, status, err, killSignal, dispatched, received,
                   accepted, ticks,
                   earlier>>

\* ---- the environment: timers and signals --------------------------------

\* the poll ticker fires; time.Ticker drops the tick when ticker.C is full
TickerFires ==
    /\ pc = "running"
    /\ Len(tasks) + NumVCenters <= MaxTasks
    /\ tickerC' = TRUE
    /\ UNCHANGED <<pc, FlushSize, metrics, interrupt, memtimerC, tasks,
                   pointbuffer, bufferindex, status, err, killSignal,
                   dispatched, received, accepted, ticks,
                   earlier>>

\* the memory ticker fires
MemtimerFires ==
    /\ pc = "running"
    /\ memtimerC' = TRUE
    /\ UNCHANGED <<pc, FlushSize, metrics, interrupt, tickerC, tasks,
                   pointbuffer, bufferindex, status, err, killSignal,
                   dispatched, received, accepted, ticks,
                   earlier>>

\* a signal is delivered to the process: the runtime sends it to interrupt
\* without blocking, so it is dropped when the channel is full
SignalDelivered(sig) ==
    /\ pc = "running"
    /\ interrupt' = IF Len(interrupt) < InterruptCap
                       THEN Append(interrupt, sig)
                       ELSE interrupt
    /\ earlier' = IF Len(interrupt) < InterruptCap
                     THEN Len(metrics)
                     ELSE earlier
    /\ UNCHANGED <<pc, FlushSize, metrics, tickerC, memtimerC, tasks,
                   pointbuffer, bufferindex, status, err, killSignal,
                   dispatched, received, accepted, ticks>>

\* ---- the query goroutines (vcenter.Query) -------------------------------

\* a task emits its next Point: the send completes when metrics has room and
\* parks the goroutine otherwise
TaskEmits(t) ==
    /\ pc \in {"running", "done"}
    /\ t \in DOMAIN tasks
    /\ tasks[t].state = "query"
    /\ Attempted < MaxTotalPoints
    /\ IF Len(metrics) < MetricsCap
          THEN /\ metrics' = ChanSend(metrics, NextPoint(t))
               /\ accepted' = Append(accepted, NextPoint(t))
               /\ tasks' = [tasks EXCEPT ![t].emitted = @ + 1]
          ELSE /\ tasks' = [tasks EXCEPT ![t].state = "blocked"]
               /\ UNCHANGED <<metrics, accepted, ticks,
                   earlier>>
    /\ UNCHANGED <<pc, FlushSize, interrupt, tickerC, memtimerC, pointbuffer,
                   bufferindex, status, err, killSignal, dispatched, received, ticks,
                   earlier>>

\* a parked send completes once metrics has room
TaskUnblocks(t) ==
    /\ pc \in {"running", "done"}
    /\ t \in DOMAIN tasks
    /\ tasks[t].state = "blocked"
    /\ Len(metrics) < MetricsCap
    /\ metrics' = ChanSend(metrics, NextPoint(t))
    /\ accepted' = Append(accepted, NextPoint(t))
    /\ tasks' = [tasks EXCEPT ![t].state = "query", ![t].emitted = @ + 1]
    /\ UNCHANGED <<pc, FlushSize, interrupt, tickerC, memtimerC, pointbuffer,
                   bufferindex, status, err, killSignal, dispatched, received, ticks,
                   earlier>>

\* vcenter.Query returns (after success or after a logged failure)
TaskEnds(t) ==
    /\ pc \in {"running", "done"}
    /\ t \in DOMAIN tasks
    /\ tasks[t].state = "query"
    /\ tasks' = [tasks EXCEPT ![t].state = "done"]
    /\ UNCHANGED <<pc, FlushSize, metrics, interrupt, tickerC, memtimerC,
                   pointbuffer, bufferindex, status, err, killSignal,
                   dispatched, received, accepted, ticks,
                   earlier>>

\* ---- the consuming loop: one action per case of the select ---------------

\* config.Backend.SendMetrics(batch); its outcome ok is not looked at
SendMetrics(batch, ok) == Append(dispatched, [batch |-> batch, ok |-> ok])

\* a bug: the value is always written into the first slot
Store_FirstSlot(buffer, index, value) == [buffer EXCEPT ![1] = value]

\* a bug: the buffer is filled from its last slot down
Store_FromEnd(buffer, index, value) ==
    [buffer EXCEPT ![Len(buffer) - index] = value]

\* pointbuffer[bufferindex] = value
Store(buffer, index, value) == [buffer EXCEPT ![index + 1] = value]

\* a bug: the test for a full buffer is off by one and comes too late
BufferFull_Late(buffer, index) == index = Len(buffer) + 1

\* a bug: the test for a full buffer is off by one and comes too early
BufferFull_Early(buffer, index) == index >= Len(buffer) - 1

\* if bufferindex == len(pointbuffer)
BufferFull(buffer, index) == index = Len(buffer)

\* a bug: the full flush leaves out the last slot
FullBatch_Short(buffer) == SubSeq(buffer, 1, Len(buffer) - 1)

\* the argument of the full flush: the whole of pointbuffer
FullBatch(buffer) == buffer

\* a bug: the loop that resets the slots stops one slot short
ResetBuffer_SkipLast(buffer, ok) ==
    [i \in DOMAIN buffer |-> IF i = Len(buffer) THEN buffer[i] ELSE EmptyPoint]

\* a bug: a batch whose send failed is kept in the buffer
ResetBuffer_KeepFailed(buffer, ok) ==
    IF ok THEN [i \in DOMAIN buffer |-> EmptyPoint] ELSE buffer

\* for i := 0; i < len(pointbuffer); i++ { pointbuffer[i] = backend.Point{} }
\* whatever the outcome ok of the send was
ResetBuffer(buffer, ok) == [i \in DOMAIN buffer |-> EmptyPoint]

\* case value := <-metrics
HandlePoint ==
    /\ Running
    /\ metrics # <<>>
    /\ LET value == Head(metrics)
           buffer == Store(pointbuffer, bufferindex, value)
           index == bufferindex + 1
       IN  /\ metrics' = Tail(metrics)
           /\ received' = Append(received, value)
           /\ IF BufferFull(buffer, index)
                 THEN \E ok \in BOOLEAN :
                          /\ dispatched' = SendMetrics(FullBatch(buffer), ok)
                          /\ pointbuffer' = ResetBuffer(buffer, ok)
                          /\ bufferindex' = 0
                 ELSE /\ pointbuffer' = buffer
                      /\ bufferindex' = index
                      /\ UNCHANGED dispatched
    /\ earlier' = IF earlier > 0 THEN earlier - 1 ELSE 0
    /\ UNCHANGED <<pc, FlushSize, interrupt, tickerC, memtimerC, tasks,
                   status, err, killSignal, accepted, ticks>>

\* case <-ticker.C
HandleTick ==
    /\ Running
    /\ tickerC
    /\ tickerC' = FALSE
    /\ tasks' = StartRound(tasks)
    /\ ticks' = ticks + 1
    /\ UNCHANGED <<pc, FlushSize, metrics, interrupt, memtimerC, pointbuffer,
                   bufferindex, status, err, killSignal, dispatched,
                   received, accepted, earlier>>

\* case <-memtimer.C: GC, read the memory statistics, log them
HandleMemtimer ==
    /\ Running
    /\ memtimerC
    /\ memtimerC' = FALSE
    /\ UNCHANGED <<pc, FlushSize, metrics, interrupt, tickerC, tasks,
                   pointbuffer, bufferindex, status, err, killSignal,
                   dispatched, received, accepted, ticks,
                   earlier>>

\* a bug: every signal is reported as a kill
ExitMessage_Killed(sig) == "Daemon was killed"

\* the message Manage returns for a signal
ExitMessage(sig) ==
    IF sig = "interrupt" THEN "Daemon was interrupted by system signal"
                         ELSE "Daemon was killed"

\* a bug: the flush at shutdown leaves out the last Point appended
PartialBatch_DropLast(buffer, index) == SubSeq(buffer, 1, index - 1)

\* a bug: the flush at shutdown sends the whole buffer
PartialBatch_Whole(buffer, index) == buffer

\* the argument of the flush at shutdown: pointbuffer[:bufferindex]
PartialBatch(buffer, index) == SubSeq(buffer, 1, index)

\* a bug: the signal case ends with break, which leaves the select only
HandleSignal_Break ==
    /\ Running
    /\ interrupt # <<>>
    /\ killSignal' = Head(interrupt)
    /\ interrupt' = Tail(interrupt)
    /\ IF bufferindex > 0
          THEN \E ok \in BOOLEAN :
                   dispatched' =
                       SendMetrics(PartialBatch(pointbuffer, bufferindex), ok)
          ELSE UNCHANGED dispatched
    /\ UNCHANGED <<pc, FlushSize, metrics, tickerC, memtimerC, tasks,
                   pointbuffer, bufferindex, status, err, received, accepted,
                   ticks, earlier>>

\* a bug: the signal case resets the buffer after its flush, as the Point
\* case does
HandleSignal_Reset ==
    /\ Running
    /\ interrupt # <<>>
    /\ killSignal' = Head(interrupt)
    /\ interrupt' = Tail(interrupt)
    /\ IF bufferindex > 0
          THEN \E ok \in BOOLEAN :
                   dispatched' =
                       SendMetrics(PartialBatch(pointbuffer, bufferindex), ok)
          ELSE UNCHANGED dispatched
    /\ pointbuffer' = [i \in DOMAIN pointbuffer |-> EmptyPoint]
    /\ bufferindex' = 0
    /\ status' = ExitMessage(Head(interrupt))
    /\ err' = "nil"
    /\ pc' = "done"
    /\ UNCHANGED <<FlushSize, metrics, tickerC, memtimerC, tasks, received,
                   accepted, ticks, earlier>>

\* case killSignal := <-interrupt
HandleSignal ==
    /\ Running
    /\ interrupt # <<>>
    /\ killSignal' = Head(interrupt)
    /\ interrupt' = Tail(interrupt)
    /\ IF bufferindex > 0
          THEN \E ok \in BOOLEAN :
                   dispatched' = SendMetrics(PartialBatch(pointbuffer, bufferindex), ok)
          ELSE UNCHANGED dispatched
    /\ status' = ExitMessage(Head(interrupt))
    /\ err' = "nil"
    /\ pc' = "done"
    /\ UNCHANGED <<FlushSize, metrics, tickerC, memtimerC, tasks, pointbuffer,
                   bufferindex, received, accepted, ticks,
                   earlier>>

\* ---- the specification --------------------------------------------------

Next ==
    \/ BackendInitFails
    \/ Startup
    \/ TickerFires
    \/ MemtimerFires
    \/ \E sig \in Signals : SignalDelivered(sig)
    \/ \E t \in 1 .. MaxTasks : TaskEmits(t)
    \/ \E t \in 1 .. MaxTasks : TaskUnblocks(t)
    \/ \E t \in 1 .. MaxTasks : TaskEnds(t)
    \/ HandlePoint
    \/ HandleTick
    \/ HandleMemtimer
    \/ HandleSignal

Spec == Init /\ [][Next]_vars

\* The select picks at random among the cases that are ready, so a case that
\* stays ready is eventually taken: the signal case is weakly fair.  Nothing
\* is assumed of the query tasks, the timers or the delivery of signals.
FairSpec == Spec /\ WF_vars(HandleSignal)

\* The runs in which no signal is delivered to the process, with a weakly
\* fair Point case.
NextQuiet ==
    \/ BackendInitFails
    \/ Startup
    \/ TickerFires
    \/ MemtimerFires
    \/ \E t \in 1 .. MaxTasks : TaskEmits(t)
    \/ \E t \in 1 .. MaxTasks : TaskUnblocks(t)
    \/ \E t \in 1 .. MaxTasks : TaskEnds(t)
    \/ HandlePoint
    \/ HandleTick
    \/ HandleMemtimer

QuietSpec == Init /\ [][NextQuiet]_vars /\ WF_vars(HandlePoint)

\* ---- vocabulary of the properties ----------------------------------------

\* the Points of a sequence of SendMetrics calls, in the order handed over
RECURSIVE Flatten(_)
Flatten(calls) ==
    IF calls = <<>> THEN <<>> ELSE calls[1].batch \o Flatten(Tail(calls))

IsPrefix(a, b) == Len(a) <= Len(b) /\ SubSeq(b, 1, Len(a)) = a

NoDuplicates(s) == \A i, j \in DOMAIN s : s[i] = s[j] => i = j

LastN(s, n) == SubSeq(s, Len(s) - n + 1, Len(s))

LastCall == dispatched[Len(dispatched)]

\* a step of the loop that receives a Point from metrics and appends it
AppendStep == Len(received') = Len(received) + 1

\* the step of the loop that handles the signal and returns
ShutdownStep == pc = "running" /\ pc' = "done"

\* exactly one SendMetrics call is made in the step, with this batch
OneCall(batch) ==
    /\ Len(dispatched') = Len(dispatched) + 1
    /\ SubSeq(dispatched', 1, Len(dispatched)) = dispatched
    /\ dispatched'[Len(dispatched')].batch = batch

\* ---- the claims ----------------------------------------------------------

\* C1: while Running, the append that makes the cursor equal to the capacity
\* FlushSize makes exactly one SendMetrics call, whose argument is the
\* FlushSize Points received since the previous flush (or since the start) in
\* arrival order, and leaves the cursor at 0; this holds of every full buffer
\* of the run, so all the Points received up to then have been handed over.
C1_FlushTrigger ==
    [][(AppendStep /\ bufferindex + 1 = FlushSize) =>
          /\ OneCall(LastN(received', FlushSize))
          /\ LastN(received', FlushSize) =
                 SubSeq(received', Len(Flatten(dispatched)) + 1, Len(received'))
          /\ bufferindex' = 0
          /\ pc' = "running"]_vars

\* the buffer has filled and been flushed a second time in the run
C1_Witness ==
    /\ pc = "running"
    /\ Len(dispatched) = 2
    /\ Len(received) = 2 * FlushSize
    /\ bufferindex = 0

\* C2: handling a termination signal with k Points in the buffer makes
\* exactly one SendMetrics call with the Points of slots [0, k) in arrival
\* order (the k Points received since the last full flush) when k > 0, and
\* no call at all when k = 0.
C2_PartialFlush ==
    [][ShutdownStep =>
          /\ bufferindex < FlushSize
          /\ bufferindex = Len(received) - Len(Flatten(dispatched))
          /\ IF bufferindex > 0
                THEN /\ OneCall(LastN(received, bufferindex))
                     /\ \A i \in 1 .. bufferindex :
                            pointbuffer[i] = LastN(received, bufferindex)[i]
                ELSE dispatched' = dispatched]_vars

\* the loop has returned after a flush of a buffer that was partly filled
C2_Witness ==
    /\ pc = "done"
    /\ dispatched # <<>>
    /\ Len(LastCall.batch) \in 1 .. FlushSize - 1
    /\ Len(received) > Len(LastCall.batch)

\* C3: every Point is handed to SendMetrics at most once, and the batches
\* handed over, one after the other, are a prefix without gap or duplicate of
\* the Points in the order the loop received them from metrics.
C3_DispatchedPrefix ==
    /\ IsPrefix(Flatten(dispatched), received)
    /\ NoDuplicates(Flatten(dispatched))
    /\ \A i \in DOMAIN dispatched : dispatched[i].batch # <<>>

\* full flushes followed by a flush at shutdown have been handed over
C3_Witness ==
    /\ pc = "done"
    /\ Len(dispatched) >= 2
    /\ Len(LastCall.batch) < FlushSize
    /\ Len(Flatten(dispatched)) = MaxTotalPoints


\* C4: when the SendMetrics call of a full buffer fails, the batch is dropped:
\* it is not put back into metrics, not kept in the buffer (every slot is
\* reset and the cursor is 0, as after a successful flush) and never handed
\* over again, and the loop stays Running.
C4_FailedFlushDropped ==
    /\ [][(AppendStep /\ Len(dispatched') > Len(dispatched)
            /\ ~dispatched'[Len(dispatched')].ok) =>
              /\ metrics' = Tail(metrics)
              /\ bufferindex' = 0
              /\ \A i \in DOMAIN pointbuffer' : pointbuffer'[i] = EmptyPoint
              /\ Len(pointbuffer') = FlushSize
              /\ pc' = "running"
              /\ tasks' = tasks]_vars
    /\ [](\A i \in DOMAIN dispatched :
             ~dispatched[i].ok =>
                 \A k \in DOMAIN dispatched[i].batch :
                     LET p == dispatched[i].batch[k]
                     IN  /\ \A j \in DOMAIN dispatched :
                                j # i => \A m \in DOMAIN dispatched[j].batch :
                                            dispatched[j].batch[m] # p
                         /\ \A m \in DOMAIN metrics : metrics[m] # p
                         /\ i < Len(dispatched) =>
                                \A m \in 1 .. bufferindex : pointbuffer[m] # p)

\* after a failed full flush the loop has gone on to append a later Point
C4_Witness ==
    /\ pc = "running"
    /\ dispatched # <<>>
    /\ ~dispatched[1].ok
    /\ Len(dispatched[1].batch) = FlushSize
    /\ FlushSize >= 2
    /\ bufferindex = 1

\* C5: metrics has the capacity of the buffer, FlushSize; it never holds more
\* Points than that; a task that emits while it is full is parked, and no
\* Point enters it, until the loop has taken a Point out; and it never drops
\* or overwrites a Point: the Points sent into it are those the loop has
\* received followed by those it still holds.
C5_Backpressure ==
    /\ [](/\ Len(metrics) <= FlushSize
          /\ pc = "running" => Len(pointbuffer) = FlushSize
          /\ accepted = received \o metrics)
    /\ [][/\ \A t \in DOMAIN tasks :
                 (tasks[t].state # "blocked" /\ tasks'[t].state = "blocked") =>
                     Len(metrics) = FlushSize /\ metrics' = metrics
          /\ Len(metrics) = FlushSize => accepted' = accepted
          /\ Len(metrics) < FlushSize =>
                 \A t \in DOMAIN tasks :
                     tasks[t].state # "blocked" => tasks'[t].state # "blocked"
          /\ accepted' # accepted =>
                 /\ Len(metrics') = Len(metrics) + 1
                 /\ SubSeq(metrics', 1, Len(metrics)) = metrics]_vars

\* a task is parked on the full channel
C5_Witness ==
    /\ pc = "running"
    /\ Len(metrics) = FlushSize
    /\ FlushSize >= 2
    /\ \E t \in DOMAIN tasks : tasks[t].state = "blocked"

\* C6: the Points of one query task appear in the batches handed over in the
\* order in which the task emitted them, whatever the interleaving of the
\* tasks.
C6_PerTaskOrder ==
    LET flat == Flatten(dispatched)
    IN  \A i, j \in DOMAIN flat :
            (i < j /\ flat[i][1] = flat[j][1]) => flat[i][2] < flat[j][2]

\* one batch holds two Points of a task with a Point of another task, started
\* for the same vcenter, between them
C6_Witness ==
    \E c \in DOMAIN dispatched :
        LET b == dispatched[c].batch
        IN  /\ Len(b) = 3
            /\ b[1][1] = b[3][1]
            /\ b[2][1] # b[1][1]
            /\ tasks[b[2][1]].vcenter = tasks[b[1][1]].vcenter

\* C7: each handled poll tick starts exactly one new query task per
\* configured vcenter, whatever the state of the tasks started before, which
\* it leaves alone; the tick case is enabled whenever a tick is pending in a
\* Running loop.
C7_TickStartsRound ==
    /\ [][(pc = "running" /\ tickerC /\ ~tickerC') =>
              /\ Len(tasks') = Len(tasks) + NumVCenters
              /\ SubSeq(tasks', 1, Len(tasks)) = tasks
              /\ \A v \in VCenters :
                     Cardinality({t \in Len(tasks) + 1 .. Len(tasks') :
                                     tasks'[t].vcenter = v}) = 1
              /\ \A t \in Len(tasks) + 1 .. Len(tasks') :
                     tasks'[t].state = "query" /\ tasks'[t].emitted = 0
              /\ pc' = "running"]_vars
    /\ []((pc = "running" /\ tickerC) => ENABLED HandleTick)

\* a tick has been handled while a task of the first round was parked on the
\* full channel: two tasks of one vcenter are outstanding
C7_Witness ==
    /\ Len(tasks) = 2 * NumVCenters
    /\ \E t \in 1 .. NumVCenters :
           /\ tasks[t].state = "blocked"
           /\ \E u \in NumVCenters + 1 .. Len(tasks) :
                  /\ tasks[u].vcenter = tasks[t].vcenter
                  /\ tasks[u].state = "query"
                  /\ tasks[u].emitted = 0

\* C8: if the initialisation of the backend returns an error the pipeline
\* never polls: no query task is started, no Point is sent, received or
\* appended, no SendMetrics call is made, and Manage returns an error.
C8_InitFailureFatal ==
    pc = "failed" =>
        /\ tasks = <<>>
        /\ accepted = <<>>
        /\ received = <<>>
        /\ bufferindex = 0
        /\ dispatched = <<>>
        /\ ~tickerC
        /\ err # "nil"
        /\ status = "Could not initialize backend"

\* Manage has returned the initialisation error
C8_Witness == pc = "failed" /\ err = "error"

\* C9: the loop leaves Running only for Terminating, and only by handling a
\* signal; Terminating is terminal: from then on no tick is handled and no
\* task started, no Point is received or appended, and no SendMetrics call is
\* made besides the at most one of the shutdown step itself.
C9_TerminatingTerminal ==
    [][/\ (pc = "running" /\ pc' # "running") =>
              /\ pc' = "done"
              /\ interrupt # <<>>
              /\ killSignal' = Head(interrupt)
              /\ Len(dispatched') <= Len(dispatched) + 1
       /\ killSignal' # killSignal => (pc = "running" /\ pc' = "done")
       /\ pc = "done" =>
              /\ pc' = "done"
              /\ Len(tasks') = Len(tasks)
              /\ tickerC' = tickerC
              /\ received' = received
              /\ Len(metrics') >= Len(metrics)
              /\ pointbuffer' = pointbuffer
              /\ bufferindex' = bufferindex
              /\ dispatched' = dispatched
              /\ <<status', err', killSignal'>> = <<status, err, killSignal>>]_vars

\* Manage has returned while a tick is pending, metrics is full and a task is
\* parked on it
C9_Witness ==
    /\ pc = "done"
    /\ tickerC
    /\ FlushSize >= 2
    /\ Len(metrics) = FlushSize
    /\ \E t \in DOMAIN tasks : tasks[t].state = "blocked"

\* C10: the message Manage returns depends only on the kind of the signal:
\* one message for an interrupt, another for any other signal; the error it
\* returns is nil in both cases, whether or not a flush was made at shutdown
\* and whether or not it succeeded.
C10_ExitNarrative ==
    pc = "done" =>
        /\ err = "nil"
        /\ killSignal \in Signals
        /\ killSignal = "interrupt" =>
               status = "Daemon was interrupted by system signal"
        /\ killSignal # "interrupt" => status = "Daemon was killed"

\* Manage has returned after a signal other than an interrupt and a failed
\* flush at shutdown
C10_Witness ==
    /\ pc = "done"
    /\ killSignal = "terminated"
    /\ status = "Daemon was killed"
    /\ dispatched # <<>>
    /\ ~LastCall.ok
    /\ Len(LastCall.batch) < FlushSize


\* C11: a query task that fails (ends without a Point) or hangs (never emits,
\* never ends) neither keeps the Points of the other tasks from the buffer nor
\* disables a case of the loop: whatever the tasks do, a pending Point, poll
\* tick or health tick of a Running loop has its case enabled, and with a
\* fair loop and no signal every Point sent into metrics is eventually
\* received and appended.
C11_ProducerIsolation ==
    /\ \A n \in 1 .. MaxTotalPoints :
           (Len(accepted) >= n) ~> (Len(received) >= n)
    /\ [](pc = "running" =>
             /\ metrics # <<>> => ENABLED HandlePoint
             /\ tickerC => ENABLED HandleTick
             /\ memtimerC => ENABLED HandleMemtimer)

\* one task has failed, another of the same round has emitted nothing and has
\* not returned, and a Point of a task of the next round is in the buffer
C11_Witness ==
    /\ pc = "running"
    /\ Len(tasks) = 2 * NumVCenters
    /\ tasks[1].state = "done" /\ tasks[1].emitted = 0
    /\ tasks[2].state = "query" /\ tasks[2].emitted = 0
    /\ bufferindex >= 1
    /\ pointbuffer[1][1] > NumVCenters

\* the scenario of C12: capacity 3, the task of the first vcenter has emitted
\* a1, a2 and the task of the second b1, and no other Point was emitted
ScenarioEmitted ==
    /\ FlushSize = 3
    /\ Len(tasks) >= 2
    /\ tasks[1].emitted = 2
    /\ tasks[2].emitted = 1
    /\ Len(accepted) = 3

\* one SendMetrics call was made, with a1, a2 and b1, a1 before a2, and the
\* cursor is 0
ScenarioFlushed ==
    /\ Len(dispatched) = 1
    /\ dispatched[1].batch \in {<< <<1, 1>>, <<1, 2>>, <<2, 1>> >>,
                                << <<1, 1>>, <<2, 1>>, <<1, 2>> >>,
                                << <<2, 1>>, <<1, 1>>, <<1, 2>> >>}
    /\ bufferindex = 0

\* C12: with capacity 3 and two vcenters whose tasks emit a1, a2 and b1, and
\* no signal, a fair loop eventually makes exactly one SendMetrics call, with
\* the 3 Points and a1 before a2, and has the cursor at 0, whatever the
\* interleaving of the tasks; and in general, once k times the capacity
\* Points have been sent into metrics, k full flushes eventually have been
\* made.
C12_ScenarioFlush ==
    /\ ScenarioEmitted ~> ScenarioFlushed
    /\ []((ScenarioEmitted /\ metrics = <<>>) => ScenarioFlushed)
    /\ \A k \in 1 .. MaxTotalPoints :
           (Len(accepted) >= k * FlushSize) ~> (Len(dispatched) >= k)

\* both tasks of the scenario have returned and the batch was handed over with
\* b1 between a1 and a2
C12_Witness ==
    /\ ScenarioEmitted
    /\ tasks[1].state = "done"
    /\ tasks[2].state = "done"
    /\ Len(dispatched) = 1
    /\ dispatched[1].batch = << <<1, 1>>, <<2, 1>>, <<1, 2>> >>
    /\ bufferindex = 0


\* C13: the cursor is in [0, FlushSize] in every state and below FlushSize
\* whenever the loop waits for its next event; every write into the buffer is
\* at a slot in [0, FlushSize - 1], the slot of the cursor; and the cursor goes
\* back to 0 exactly when the append brings it to FlushSize.
C13_CursorRange ==
    /\ [](/\ bufferindex \in 0 .. FlushSize
          /\ pc \in {"running", "done"} =>
                 /\ bufferindex < FlushSize
                 /\ DOMAIN pointbuffer = 1 .. FlushSize)
    /\ [][AppendStep =>
             /\ bufferindex \in 0 .. FlushSize - 1
             /\ DOMAIN pointbuffer' = DOMAIN pointbuffer
             /\ \A i \in DOMAIN pointbuffer :
                    i # bufferindex + 1 =>
                        pointbuffer'[i] \in {pointbuffer[i], EmptyPoint}
             /\ bufferindex' = IF bufferindex + 1 = FlushSize
                                  THEN 0
                                  ELSE bufferindex + 1]_vars
    /\ [][(bufferindex # 0 /\ bufferindex' = 0) =>
             (AppendStep /\ bufferindex + 1 = FlushSize)]_vars

\* after a flush of a buffer of two slots the first slot is in use again
C13_Witness ==
    /\ pc = "running"
    /\ FlushSize = 2
    /\ Len(dispatched) = 1
    /\ bufferindex = 1
    /\ pointbuffer[1] = received[3]

\* C14: while Running no SendMetrics call is made before the cursor reaches
\* the capacity: every call made had a full buffer, and the n < FlushSize
\* Points received since the last one are in no call and are the Points of
\* slots [0, n) in arrival order, whatever ticks were handled in between.
C14_NoEarlyFlush ==
    pc = "running" =>
        LET n == Len(received) - Len(Flatten(dispatched))
        IN  /\ n \in 0 .. FlushSize - 1
            /\ n = bufferindex
            /\ SubSeq(pointbuffer, 1, n) = LastN(received, n)
            /\ \A i \in DOMAIN dispatched :
                   Len(dispatched[i].batch) = FlushSize
            /\ Len(dispatched) * FlushSize + n = Len(received)

\* two Points wait in a buffer of three slots, no call has been made, and a
\* poll tick was handled and a health tick is pending
C14_Witness ==
    /\ pc = "running"
    /\ FlushSize = 3
    /\ bufferindex = 2
    /\ dispatched = <<>>
    /\ ticks = 1
    /\ memtimerC

\* C15: after a full flush and before the next append every slot of the
\* buffer holds the zero-value Point; so in every state of a Running loop the
\* slots from the cursor on hold the zero-value Point.
C15_SlotsSentinel ==
    pc = "running" =>
        /\ \A i \in bufferindex + 1 .. FlushSize : pointbuffer[i] = EmptyPoint
        /\ (dispatched # <<>> /\ bufferindex = 0) =>
               pointbuffer = [i \in 1 .. FlushSize |-> EmptyPoint]

\* a buffer of three slots has been flushed and nothing appended since
C15_Witness ==
    /\ pc = "running"
    /\ FlushSize = 3
    /\ Len(dispatched) = 1
    /\ Len(received) = 3
    /\ bufferindex = 0


\* the events a step of the loop handles: a Point, a poll tick, a health tick,
\* a signal
HandledInStep ==
    (IF received' # received THEN 1 ELSE 0)
    + (IF ticks' # ticks THEN 1 ELSE 0)
    + (IF memtimerC /\ ~memtimerC' THEN 1 ELSE 0)
    + (IF killSignal' # killSignal THEN 1 ELSE 0)

\* C16 as claimed: the loop handles its events strictly in arrival order; in
\* particular every Point that was in metrics before the signal arrived has
\* been received and appended when the signal is handled, and so is part of
\* the flush at shutdown.
C16_ArrivalOrder ==
    [][ShutdownStep => earlier = 0]_vars

\* C16 as amended: the loop handles one event at a time and receives the
\* Points in the order in which they entered metrics; between pending events
\* of different kinds no order is kept, so the flush at shutdown holds the
\* Points received before the signal was handled and leaves in metrics every
\* Point not yet received, also one that entered metrics before the signal.
C16_OneAtATime ==
    /\ [](IsPrefix(received, accepted))
    /\ [][/\ HandledInStep <= 1
          /\ received' # received =>
                 received' = Append(received, Head(metrics))]_vars
    /\ [][ShutdownStep =>
             /\ Flatten(dispatched') = received
             /\ received' = received
             /\ metrics' = metrics]_vars

\* the loop has returned while a Point that entered metrics before the signal
\* was still there, behind a Point it had received
C16_Witness ==
    /\ pc = "done"
    /\ earlier > 0
    /\ metrics # <<>>
    /\ received # <<>>
    /\ Flatten(dispatched) = received


\* C17: once made, the buffer and the cursor change only in the step in which
\* the loop receives a Point: a send of a task into metrics, a handled poll
\* tick, a handled health tick and the shutdown step leave both unchanged, and
\* the health tick also leaves metrics and the tasks unchanged.
C17_SingleWriter ==
    [][/\ (pointbuffer' # pointbuffer \/ bufferindex' # bufferindex) =>
              (AppendStep \/ pc = "init")
       /\ (pc # "init" /\ (accepted' # accepted \/ tasks' # tasks)) =>
              UNCHANGED <<pointbuffer, bufferindex>>
       /\ ticks' # ticks => UNCHANGED <<pointbuffer, bufferindex>>
       /\ (memtimerC /\ ~memtimerC') =>
              UNCHANGED <<pointbuffer, bufferindex, metrics, tasks, pc,
                          dispatched, received>>
       /\ ShutdownStep => UNCHANGED <<pointbuffer, bufferindex>>]_vars

\* the loop has handled a poll tick and returned with two Points in the buffer
\* and one left in metrics
C17_Witness ==
    /\ pc = "done"
    /\ ticks = 1
    /\ bufferindex = 2
    /\ SubSeq(pointbuffer, 1, 2) = LastCall.batch
    /\ Len(metrics) = 1


\* the Points the loop holds in slots [0, cursor) of its buffer; the buffer is
\* a local of Manage and is gone once Manage has returned
BufferHeld ==
    IF pc = "running" THEN SubSeq(pointbuffer, 1, bufferindex) ELSE <<>>

\* C18: the flush at shutdown covers the Points already appended and no
\* others: in every state the Points sent into metrics are the Points handed
\* to SendMetrics, then those in slots [0, cursor) of the buffer, then those
\* still in metrics; the shutdown step takes nothing out of metrics and
\* releases no parked task, and after it no Point of metrics or of a parked
\* task is ever received or handed over.
C18_Conservation ==
    /\ [](accepted = Flatten(dispatched) \o BufferHeld \o metrics)
    /\ [][ShutdownStep =>
             /\ metrics' = metrics
             /\ tasks' = tasks
             /\ Flatten(dispatched') = Flatten(dispatched) \o BufferHeld]_vars
    /\ [][pc = "done" =>
             /\ received' = received
             /\ dispatched' = dispatched
             /\ IsPrefix(metrics, metrics')]_vars

\* Manage has returned after one flush, leaving a Point in metrics and a task
\* parked on the full channel
C18_Witness ==
    /\ pc = "done"
    /\ FlushSize = 1
    /\ Len(dispatched) = 1
    /\ Len(metrics) = 1
    /\ Len(accepted) = 2
    /\ \E t \in DOMAIN tasks : tasks[t].state = "blocked"


\* C19: a signal held by interrupt is never lost while the loop handles other
\* events: it stays there, with the signal case enabled, until the loop
\* handles it and returns; and with a weakly fair select the loop eventually
\* does so, whatever Points, poll ticks and health ticks keep arriving.
C19_SignalHandled ==
    /\ (interrupt # <<>>) ~> (pc = "done")
    /\ [](interrupt # <<>> => (pc = "running" /\ ENABLED HandleSignal))
    /\ [][interrupt # <<>> =>
             \/ interrupt' = interrupt /\ pc' = "running"
             \/ /\ pc' = "done"
                /\ killSignal' = Head(interrupt)
                /\ interrupt' = <<>>]_vars

\* the loop has returned for a signal that was delivered while a Point, a poll
\* tick and a health tick were pending
C19_Witness ==
    /\ pc = "done"
    /\ killSignal \in Signals
    /\ earlier > 0
    /\ tickerC
    /\ memtimerC


\* C20: after a successful initialisation of the backend a first round of
\* queries is started before the loop handles any event, one task per
\* vcenter, without waiting for a poll tick; so after t handled poll ticks the
\* tasks started number (t + 1) times the vcenters, one per vcenter in every
\* round.
C20_InitialRound ==
    /\ pc \in {"init", "failed"} => tasks = <<>> /\ ticks = 0
    /\ pc \in {"running", "done"} =>
           /\ Len(tasks) = (ticks + 1) * NumVCenters
           /\ \A r \in 0 .. ticks : \A v \in VCenters :
                  Cardinality({t \in r * NumVCenters + 1 .. (r + 1) * NumVCenters :
                                  tasks[t].vcenter = v}) = 1

\* before any poll tick has fired and before the loop has handled an event, a
\* task of the first round has sent a Point into metrics
C20_Witness ==
    /\ pc = "running"
    /\ ticks = 0
    /\ ~tickerC
    /\ received = <<>>
    /\ Len(tasks) = NumVCenters
    /\ accepted # <<>>

====
